---- MODULE Spec2Model ----
(***************************************************************************)
(* Model of the WillItRain backend: the Express handlers and the metric    *)
(* evaluators of part_000, the current server, and the handlers of         *)
(* server.js, its precipitation-only predecessor.  The two are separate    *)
(* applications: Spec is part_000, SpecLegacy is server.js.  Their / and   *)
(* /api/weather handlers are the same code.  Their /api/willitrain         *)
(* handlers share the parameter parsing (57-60), the date handling         *)
(* (70-85), the index search (99-110) and the context window (115-119),    *)
(* and differ in the series requested, the format check, the evaluators    *)
(* (server.js has none) and the fields of the result.                      *)
(*                                                                         *)
(* Units.  Precipitation samples are integers in tenths of a millimetre    *)
(* (0.1 mm = 1).  Temperatures and wind speeds are whole degrees / km/h on *)
(* input and tenths on output (Math.round(x*10)/10).  Instants are         *)
(* integers in half hours, so an hourly series advances by 2 and a target  *)
(* can fall exactly between two samples.  A number parsed from a query     *)
(* parameter is a double, in the parameter's own unit (hours, millimetres),*)
(* and a sample of n tenths compared with it is the double nearest n / 10. *)
(*                                                                         *)
(* Arithmetic.  The code computes in IEEE doubles.  Sums, differences and  *)
(* comparisons of the integers above are exact in doubles.  The quotient   *)
(* in calculateRainProbability is not: RoundedPercent reproduces its       *)
(* rounding.  The averages of evaluateTemperature and evaluateWind land on *)
(* the exact half whenever the exact value is one, so MathRound of the     *)
(* exact quotient is what the code returns.                                *)
(***************************************************************************)
EXTENDS Integers, Sequences, FiniteSets

VARIABLES
    pc,         \* "idle" | "fetching" (suspended on await fetch) | "parsing" (on await resp.json()) | "done"
    route,      \* "none" | "/" | "/api/willitrain" | "/api/weather" | "direct" (evaluator called on its own)
    query,      \* req.query of the request being handled
    parsed,     \* the handler's locals computed before the fetch: hoursNum, threshNum, targetDate
    window,     \* the handler's locals computed after it: mode, now, idx (startIdx), start, end
    fetches,    \* outbound calls made to the forecast provider, in order
    data,       \* what the provider answered so far (outcome kind, status, hourly payload)
    call,       \* an evaluator about to be called on its own: its name and arguments
    evals,      \* evaluator invocations made, in order: arguments and return value
    responses   \* res.status(..).json(..) calls made for the request, in order

vars == <<pc, route, query, parsed, window, fetches, data, call, evals, responses>>

----------------------------------------------------------------------------
(* The values of an evaluator's result that are no finite number.  They are *)
(* strings, so that none is a number a sample or a result can take; the     *)
(* operators below decide by the case that produces them (an empty series,  *)
(* a zero divisor) and never compare one with an integer.                   *)

NaN == "NaN"
PosInfinity == "Infinity"
NegInfinity == "-Infinity"

(* A nullable array: humidity and windDirection are `null` when the provider *)
(* sent no such series.                                                      *)
Null == [present |-> FALSE, v |-> <<>>]
Some(s) == [present |-> TRUE, v |-> s]

Max2(a, b) == IF a > b THEN a ELSE b
Min2(a, b) == IF a < b THEN a ELSE b
Abs(a) == IF a < 0 THEN -a ELSE a

RECURSIVE Sum(_)
\* arr.reduce((a, b) => a + b, 0); the additions are grouped by halves, which
\* gives the same total and keeps the evaluation shallow on a week of samples
Sum(s) ==
    IF Len(s) = 0 THEN 0
    ELSE IF Len(s) = 1 THEN s[1]
    ELSE Sum(SubSeq(s, 1, Len(s) \div 2)) + Sum(SubSeq(s, Len(s) \div 2 + 1, Len(s)))

\* Math.max(...arr): -Infinity for no arguments
MathMax(s) ==
    IF s = <<>> THEN NegInfinity
    ELSE s[CHOOSE i \in 1..Len(s) : \A j \in 1..Len(s) : s[i] >= s[j]]

\* Math.min(...arr): +Infinity for no arguments
MathMin(s) ==
    IF s = <<>> THEN PosInfinity
    ELSE s[CHOOSE i \in 1..Len(s) : \A j \in 1..Len(s) : s[i] <= s[j]]

\* Math.round(num / den) for den > 0: nearest integer, halves towards +Infinity
MathRound(num, den) == (2 * num + den) \div (2 * den)

RECURSIVE GCD(_, _)
GCD(a, b) == IF b = 0 THEN a ELSE GCD(b, a % b)

RECURSIVE Pow2(_)
Pow2(k) == IF k <= 0 THEN 1 ELSE 2 * Pow2(k - 1)

RECURSIVE Pow2Mod(_, _)
\* 2^k modulo q
Pow2Mod(k, q) == IF k <= 0 THEN 1 % q ELSE (2 * Pow2Mod(k - 1, q)) % q

RECURSIVE BinaryExponent(_, _, _)
\* the exponent E of the double p / q: 2^E <= p/q < 2^(E+1), searched from e
BinaryExponent(p, q, e) ==
    IF p >= q
    THEN IF Pow2(e + 1) * q <= p THEN BinaryExponent(p, q, e + 1) ELSE e
    ELSE IF p * Pow2(-e) < q THEN BinaryExponent(p, q, e - 1) ELSE e

----------------------------------------------------------------------------
(* Metric evaluators.                                                      *)

\* precipitation.filter(p => p > 0.1).length
RainHours(precipitation) ==
    Cardinality({i \in 1..Len(precipitation) : precipitation[i] > 1})

HumidityBonus(humidity) ==
    IF humidity.present /\ Len(humidity.v) > 0
    THEN IF Sum(humidity.v) > 80 * Len(humidity.v) THEN 10
         ELSE IF Sum(humidity.v) > 60 * Len(humidity.v) THEN 5 ELSE 0
    ELSE 0

(* Math.round((rainHours / hours) * 100 + bonus) for hours # 0, as doubles  *)
(* compute it.  The double differs from the exact value by less than the    *)
(* distance of any exact value to the next half, so the result is the exact *)
(* rounding unless the exact value is a half k + 1/2 (rainHours/hours is    *)
(* then p/8, p/40 or p/200 in lowest terms).  There the quotient p/q is     *)
(* rounded to 53 bits (rem / q of a unit in its last place is cut off, or   *)
(* the rest added), the product with 100 is rounded again and lands on the  *)
(* half or one unit of its last place beside it, and adding the bonus keeps *)
(* that unit only while the sum stays below the next power of two.  A value *)
(* just below the half is rounded down where the exact half goes up.        *)
RoundedPercent(rainHours, hours, bonus) ==
    LET ah    == Abs(hours)
        twice == (IF hours > 0 THEN 1 ELSE -1) * 2 * (100 * rainHours + bonus * hours) + ah
        exact == twice \div (2 * ah)
        p     == rainHours \div GCD(rainHours, ah)
        q     == ah \div GCD(rainHours, ah)
        E     == BinaryExponent(p, q, 0)
        rem   == ((p % q) * Pow2Mod(52 - E, q)) % q
        \* the product with 100 has one bit more than 100 has: its last place is 64 of the quotient's
        small == IF E + 7 >= 0 THEN 100 * p < Pow2(E + 7) * q
                 ELSE 100 * p * Pow2(-(E + 7)) < q
        down  == small /\ 2 * rem < q /\ 100 * rem > 32 * q
        up    == small /\ 2 * rem > q /\ 100 * (q - rem) > 32 * q
        half2 == (200 * p) \div q                       \* twice the half 100 p / q
        top2  == IF E + 8 >= 0 THEN Pow2(E + 8) ELSE 0  \* twice the next power of two
        short == IF hours > 0
                 THEN down /\ (bonus = 0 \/ half2 + 2 * bonus < top2)
                 ELSE up /\ (bonus = 0 \/ 2 * bonus - half2 < top2)
    IN  IF rainHours > 0 /\ twice % (2 * ah) = 0 /\ short THEN exact - 1 ELSE exact

\* A plausible slip: the clamp to 100 forgotten.
calculateRainProbabilityNoClamp(precipitation, humidity, hours) ==
    IF hours = 0
    THEN IF RainHours(precipitation) = 0 THEN NaN ELSE PosInfinity
    ELSE RoundedPercent(RainHours(precipitation), hours, HumidityBonus(humidity))

calculateRainProbability(precipitation, humidity, hours) ==
    IF hours = 0
    THEN \* 0/0 is NaN and stays NaN; n/0 is Infinity, which Math.min cuts to 100
         IF RainHours(precipitation) = 0 THEN NaN ELSE 100
    ELSE Min2(100, RoundedPercent(RainHours(precipitation), hours, HumidityBonus(humidity)))

\* A plausible slip: the cold test placed before the hot one.
TempStatusColdFirst(temperatures) ==
    IF temperatures = <<>> THEN "normal"
    ELSE IF MathMin(temperatures) < 0 THEN "muy_baja"
    ELSE IF MathMax(temperatures) > 35 THEN "muy_alta"
    ELSE IF MathMax(temperatures) > 30 THEN "alta"
    ELSE IF MathMin(temperatures) < 5 THEN "baja"
    ELSE "normal"

TempStatus(temperatures) ==
    IF temperatures = <<>>
    THEN \* maxTemp is -Infinity and minTemp Infinity: no test holds
         "normal"
    ELSE IF MathMax(temperatures) > 35 THEN "muy_alta"
    ELSE IF MathMin(temperatures) < 0 THEN "muy_baja"
    ELSE IF MathMax(temperatures) > 30 THEN "alta"
    ELSE IF MathMin(temperatures) < 5 THEN "baja"
    ELSE "normal"

evaluateTemperature(temperatures) ==
    IF temperatures = <<>>
    THEN \* 0 / 0 is NaN; Math.round(x * 10) / 10 of a value that is not finite is that value
         [average |-> NaN, max |-> MathMax(temperatures), min |-> MathMin(temperatures),
          status |-> TempStatus(temperatures)]
    ELSE [average |-> MathRound(Sum(temperatures) * 10, Len(temperatures)),
          max     |-> 10 * MathMax(temperatures),
          min     |-> 10 * MathMin(temperatures),
          status  |-> TempStatus(temperatures)]

evaluateWind(windSpeeds) ==
    IF windSpeeds = <<>>
    THEN \* avgWind is NaN and maxWind -Infinity: no test holds
         [average |-> NaN, max |-> MathMax(windSpeeds), status |-> "Poco"]
    ELSE [average |-> MathRound(Sum(windSpeeds) * 10, Len(windSpeeds)),
          max     |-> 10 * MathMax(windSpeeds),
          status  |-> IF MathMax(windSpeeds) > 20 THEN "Mucho"
                      ELSE IF Sum(windSpeeds) > 10 * Len(windSpeeds) THEN "Común"
                      ELSE "Poco"]

----------------------------------------------------------------------------
(* Numbers parsed from text.  parseInt and parseFloat return a double: the *)
(* double nearest to the decimal the text denotes, ties to the even        *)
(* mantissa.  A finite double is written                                   *)
(*     (-1)^neg * mant * 2^exp,                                            *)
(* mant the decimal digits of an integer below 2^53, without leading zero. *)
(* The form is unique: mant is at least 2^52 unless exp is MinExp (a       *)
(* subnormal), and zero has no digit and exponent 0.  kind tells a finite  *)
(* number from NaN and from the infinity of sign neg.                      *)

Number(kind, neg, mant, exp) == [kind |-> kind, neg |-> neg, mant |-> mant, exp |-> exp]
NotANumber == Number("NaN", FALSE, <<>>, 0)
Infinite(neg) == Number("Infinity", neg, <<>>, 0)
Zero(neg) == Number("finite", neg, <<>>, 0)

\* the length of the longest prefix of s whose elements are all in S
PrefixLength(s, S) ==
    CHOOSE k \in 0..Len(s) :
        /\ k = Len(s) \/ s[k + 1] \notin S
        /\ \A i \in 1..k : s[i] \in S

LeadingZeros(ds) == PrefixLength(ds, {0})

StripTrailingZeros(ds) ==
    SubSeq(ds, 1, CHOOSE k \in 0..Len(ds) :
                      /\ k = 0 \/ ds[k] # 0
                      /\ \A i \in (k + 1)..Len(ds) : ds[i] = 0)

\* a < b for digit sequences read from the most significant digit, a missing
\* digit counting as less than any
LexLess(a, b) ==
    LET differ == {i \in 1..Min2(Len(a), Len(b)) : a[i] # b[i]}
        first  == CHOOSE i \in differ : \A j \in differ : i <= j
    IN  IF differ = {} THEN Len(a) < Len(b) ELSE a[first] < b[first]

\* a < b for the digits of two integers without leading zeros
IntLess(a, b) == Len(a) < Len(b) \/ (Len(a) = Len(b) /\ LexLess(a, b))

(* An exact positive decimal 0.d1 d2 .. dn * 10^point, d1 # 0 and dn # 0.  *)
(* Doubling and halving a decimal are exact and carry over one digit only. *)
Exact(ds, point) == [ds |-> ds, point |-> point]

\* 2 * x
Twice(x) ==
    LET n    == Len(x.ds)
        body == [i \in 1..n |->
                    (2 * x.ds[i] + (IF i < n /\ x.ds[i + 1] >= 5 THEN 1 ELSE 0)) % 10]
        kept == SubSeq(body, 1, IF x.ds[n] = 5 THEN n - 1 ELSE n)
    IN  IF x.ds[1] >= 5 THEN Exact(<<1>> \o kept, x.point + 1) ELSE Exact(kept, x.point)

\* x / 2
Half(x) ==
    LET n    == Len(x.ds)
        body == [i \in 1..n |->
                    (x.ds[i] + (IF i > 1 /\ x.ds[i - 1] % 2 = 1 THEN 10 ELSE 0)) \div 2]
        ext  == IF x.ds[n] % 2 = 1 THEN Append(body, 5) ELSE SubSeq(body, 1, n)
    IN  IF x.ds[1] = 1 THEN Exact(Tail(ext), x.point - 1) ELSE Exact(ext, x.point)

RECURSIVE Scaled(_, _)
\* x * 2^k, k of either sign
Scaled(x, k) ==
    IF k = 0 \/ x.ds = <<>> THEN x
    ELSE IF k = 1 THEN Twice(x)
    ELSE IF k = -1 THEN Half(x)
    ELSE Scaled(Scaled(x, k \div 2), k - k \div 2)

\* the digits of the integer part of x (none when x < 1), and whether its
\* fraction is below, at or above one half
IntPart(x) ==
    IF x.point <= 0 THEN <<>>
    ELSE IF x.point <= Len(x.ds) THEN SubSeq(x.ds, 1, x.point)
    ELSE x.ds \o [i \in 1..(x.point - Len(x.ds)) |-> 0]

FractionVsHalf(x) ==
    IF x.point >= Len(x.ds) \/ x.point < 0 THEN "below"
    ELSE IF x.ds[x.point + 1] > 5 THEN "above"
    ELSE IF x.ds[x.point + 1] < 5 THEN "below"
    ELSE IF Len(x.ds) = x.point + 1 THEN "half"
    ELSE "above"

\* n + 1 for the digits of an integer n
Incremented(ds) ==
    LET n == Len(ds)
        j == CHOOSE k \in 0..n : (k = 0 \/ ds[k] # 9) /\ \A i \in (k + 1)..n : ds[i] = 9
    IN  IF j = 0 THEN <<1>> \o [i \in 1..n |-> 0]
        ELSE SubSeq(ds, 1, j - 1) \o <<ds[j] + 1>> \o [i \in 1..(n - j) |-> 0]

\* a double's mantissa has 53 bits: 2^52 <= mant < 2^53 but for subnormals
TwoTo52 == <<4, 5, 0, 3, 5, 9, 9, 6, 2, 7, 3, 7, 0, 4, 9, 6>>
TwoTo53 == <<9, 0, 0, 7, 1, 9, 9, 2, 5, 4, 7, 4, 0, 9, 9, 2>>
\* the exponent of the last bit of a subnormal, and of Number.MAX_VALUE
MinExp == -1074
MaxExp == 971
\* decimals of more than MaxPoint integer digits are beyond Number.MAX_VALUE,
\* those starting below the MinPoint-th place are under half of Number.MIN_VALUE
MaxPoint == 310
MinPoint == -330

RECURSIVE Normal(_, _)
\* y and e with y * 2^e unchanged and 2^52 <= y < 2^53, or y < 2^52 and e = MinExp
Normal(y, e) ==
    IF ~IntLess(IntPart(y), TwoTo53) THEN Normal(Half(y), e + 1)
    ELSE IF IntLess(IntPart(y), TwoTo52) /\ e > MinExp THEN Normal(Twice(y), e - 1)
    ELSE [y |-> y, e |-> e]

\* the double of sign neg nearest to 0.ds * 10^point, ds any digits: the
\* decimal is scaled by the power of two that leaves 53 bits before the point
\* (10^point is about 2^(3.322 * point), Normal settles the rest), then
\* rounded to an integer, a half going to the even one
Decimal(neg, ds, point) ==
    LET core  == StripTrailingZeros(SubSeq(ds, LeadingZeros(ds) + 1, Len(ds)))
        p     == point - LeadingZeros(ds)
        start == Max2(MinExp, (p * 3322) \div 1000 - 52)
        n     == Normal(Scaled(Exact(core, p), -start), start)
        int   == IntPart(n.y)
        odd   == int # <<>> /\ int[Len(int)] % 2 = 1
        up    == FractionVsHalf(n.y) = "above" \/ (FractionVsHalf(n.y) = "half" /\ odd)
        mant  == IF up THEN Incremented(int) ELSE int
    IN  IF core = <<>> THEN Zero(neg)
        ELSE IF p > MaxPoint THEN Infinite(neg)
        ELSE IF p < MinPoint THEN Zero(neg)
        ELSE IF mant = <<>> THEN Zero(neg)
        ELSE IF mant = TwoTo53
        THEN (IF n.e + 1 > MaxExp THEN Infinite(neg) ELSE Number("finite", neg, TwoTo52, n.e + 1))
        ELSE IF n.e > MaxExp THEN Infinite(neg)
        ELSE Number("finite", neg, mant, n.e)

RECURSIVE IntDigits(_)
\* the decimal digits of n >= 0
IntDigits(n) == IF n < 10 THEN <<n>> ELSE Append(IntDigits(n \div 10), n % 10)

\* the double of the integer n, and of n tenths (the double nearest n / 10)
IntNumber(n) == Decimal(n < 0, IntDigits(Abs(n)), Len(IntDigits(Abs(n))))
Tenths(n) == Decimal(n < 0, IntDigits(Abs(n)), Len(IntDigits(Abs(n))) - 1)

\* |a| < |b| for finite a and b
MagnitudeLess(a, b) ==
    IF b.mant = <<>> THEN FALSE
    ELSE IF a.mant = <<>> THEN TRUE
    ELSE a.exp < b.exp \/ (a.exp = b.exp /\ IntLess(a.mant, b.mant))

\* a < b: false when either is NaN; -0 and 0 are equal
Less(a, b) ==
    IF a.kind = "NaN" \/ b.kind = "NaN" THEN FALSE
    ELSE IF a.kind = "Infinity" THEN a.neg /\ ~(b.kind = "Infinity" /\ b.neg)
    ELSE IF b.kind = "Infinity" THEN ~b.neg
    ELSE IF a.neg /\ ~b.neg THEN a.mant # <<>> \/ b.mant # <<>>
    ELSE IF ~a.neg /\ b.neg THEN FALSE
    ELSE IF a.neg THEN MagnitudeLess(b, a)
    ELSE MagnitudeLess(a, b)

\* a >= b
GreaterEq(a, b) == a.kind # "NaN" /\ b.kind # "NaN" /\ ~Less(a, b)

\* Math.min(a, b) and Math.max(a, b) of numbers neither of which is NaN
MathMin2(a, b) == IF Less(b, a) THEN b ELSE a
MathMax2(a, b) == IF Less(a, b) THEN b ELSE a

RECURSIVE DigitsValue(_, _)
DigitsValue(ds, acc) == IF ds = <<>> THEN acc ELSE DigitsValue(Tail(ds), 10 * acc + Head(ds))

\* the value of a finite number that is a nonzero integer of at most nine digits
ToInt(x) ==
    (IF x.neg THEN -1 ELSE 1)
        * DigitsValue(IntPart(Scaled(Exact(StripTrailingZeros(x.mant), Len(x.mant)), x.exp)), 0)

----------------------------------------------------------------------------
(* Query-string parameters.  A parameter is a string, modelled as the      *)
(* sequence of its characters, or undefined.  A character is a string of   *)
(* length one; one that cannot be written in a module is named by its code *)
(* point ("U+2028").                                                       *)

Undefined == [present |-> FALSE, v |-> <<>>]
Str(chars) == [present |-> TRUE, v |-> chars]

\* !x of a query parameter: undefined and '' are falsy
Falsy(param) == ~param.present \/ param.v = <<>>

Digits == {"0", "1", "2", "3", "4", "5", "6", "7", "8", "9"}

DigitValue(c) ==
    CASE c = "0" -> 0 [] c = "1" -> 1 [] c = "2" -> 2 [] c = "3" -> 3 [] c = "4" -> 4
      [] c = "5" -> 5 [] c = "6" -> 6 [] c = "7" -> 7 [] c = "8" -> 8 [] c = "9" -> 9

DigitValues(cs) == SubSeq([i \in 1..Len(cs) |-> DigitValue(cs[i])], 1, Len(cs))

\* StrWhiteSpaceChar: white space (tab, vertical tab, form feed, space,
\* no-break space, byte order mark, the space separators) and line terminators
WhiteSpace ==
    {" ", "\t", "\n", "\r", "\f", "", " "}
    \cup {"U+FEFF", "U+1680", "U+2000", "U+2001", "U+2002", "U+2003",
          "U+2004", "U+2005", "U+2006", "U+2007", "U+2008", "U+2009", "U+200A", "U+2028",
          "U+2029", "U+202F", "U+205F", "U+3000"}

TrimStart(s) == SubSeq(s, PrefixLength(s, WhiteSpace) + 1, Len(s))

\* the longest prefix of s made of decimal digits
DigitPrefix(s) == SubSeq(s, 1, PrefixLength(s, Digits))

Unsigned(s) == IF s # <<>> /\ Head(s) \in {"-", "+"} THEN Tail(s) ELSE s
Negative(s) == s # <<>> /\ Head(s) = "-"

StartsWith(s, prefix) == Len(s) >= Len(prefix) /\ SubSeq(s, 1, Len(prefix)) = prefix

\* parseInt(string, 10): leading white space, a sign, then digits up to the
\* first character that is not one; NaN when there is no digit
ParseInt(chars) ==
    LET s  == TrimStart(chars)
        ds == DigitPrefix(Unsigned(s))
    IN  IF ds = <<>> THEN NotANumber ELSE Decimal(Negative(s), DigitValues(ds), Len(ds))

\* the ExponentPart at the head of s (e or E, a sign, at least one digit): its
\* sign and its digits, of any number, without their leading zeros; no digit
\* for an exponent of 0 or a missing ExponentPart
ExponentPart(s) ==
    IF s # <<>> /\ Head(s) \in {"e", "E"} /\ DigitPrefix(Unsigned(Tail(s))) # <<>>
    THEN LET ds == DigitValues(DigitPrefix(Unsigned(Tail(s))))
         IN  [neg |-> Negative(Tail(s)), ds |-> SubSeq(ds, LeadingZeros(ds) + 1, Len(ds))]
    ELSE [neg |-> FALSE, ds |-> <<>>]

\* the place a + e of the first significant digit, for a = the count of
\* integer digits less the leading zeros and e the exponent.  The sum is
\* exact wherever a double is neither 0 nor Infinity; beyond MaxPoint it is
\* given as MaxPoint + 1 and below MinPoint as MinPoint - 1, which Decimal
\* reads like any place out there.  It is taken in tens and units, so that
\* no step leaves the 32-bit integers; a is a length, and an exponent of
\* more than 10 digits exceeds every length.
Place(a, e) ==
    LET sign  == IF e.neg THEN -1 ELSE 1
        tens  == (a \div 10) + sign * DigitsValue(SubSeq(e.ds, 1, Len(e.ds) - 1), 0)
        units == (a % 10) + sign * (IF e.ds = <<>> THEN 0 ELSE e.ds[Len(e.ds)])
    IN  IF Len(e.ds) > 10 THEN (IF e.neg THEN MinPoint - 1 ELSE MaxPoint + 1)
        ELSE IF tens > 100 THEN MaxPoint + 1
        ELSE IF tens < -100 THEN MinPoint - 1
        ELSE 10 * tens + units

\* parseFloat(string): leading white space, then the longest prefix that is a
\* StrDecimalLiteral: a sign, then Infinity or digits with an optional point,
\* fraction and exponent; NaN when there is none
ParseFloat(chars) ==
    LET s        == TrimStart(chars)
        u        == Unsigned(s)
        ints     == DigitPrefix(u)
        afterInt == SubSeq(u, Len(ints) + 1, Len(u))
        point    == afterInt # <<>> /\ Head(afterInt) = "."
        fracs    == IF point THEN DigitPrefix(Tail(afterInt)) ELSE <<>>
        rest     == IF point THEN SubSeq(afterInt, Len(fracs) + 2, Len(afterInt)) ELSE afterInt
        digits   == DigitValues(ints \o fracs)
        zeros    == LeadingZeros(digits)
    IN  IF StartsWith(u, <<"I", "n", "f", "i", "n", "i", "t", "y">>) THEN Infinite(Negative(s))
        ELSE IF ints = <<>> /\ fracs = <<>> THEN NotANumber
        ELSE Decimal(Negative(s), SubSeq(digits, zeros + 1, Len(digits)),
                     Place(Len(ints) - zeros, ExponentPart(rest)))

\* x || fallback for a number x: NaN, 0 and -0 are falsy
OrDefault(x, fallback) ==
    IF x.kind = "NaN" \/ (x.kind = "finite" /\ x.mant = <<>>) THEN fallback ELSE x

\* const { hours = '12' } = req.query: the default applies to undefined only
WithDefault(param, chars) == IF param.present THEN param.v ELSE chars

\* Math.max(1, Math.min(168, parseInt(hours, 10) || 12))
HoursNum(hours) ==
    ToInt(MathMax2(IntNumber(1),
                   MathMin2(IntNumber(168),
                            OrDefault(ParseInt(WithDefault(hours, <<"1", "2">>)),
                                      IntNumber(12)))))

\* parseFloat(threshold) || 0.1, in millimetres
ThreshNum(threshold) ==
    OrDefault(ParseFloat(WithDefault(threshold, <<"0", ".", "1">>)), Tenths(1))

(* The date parameter: what new Date(date).getTime() makes of it.  A date   *)
(* string is modelled by its kind and, when it is a valid ISO date, the     *)
(* instant it denotes.                                                      *)
NoDate == [kind |-> "undefined", t |-> 0]
EmptyDate == [kind |-> "empty", t |-> 0]
BadDate == [kind |-> "invalid", t |-> 0]
IsoDate(t) == [kind |-> "iso", t |-> t]

DateFalsy(date) == date.kind \in {"undefined", "empty"}
GetTime(date) == IF date.kind = "iso" THEN date.t ELSE NaN

\* `${yyyy}-${mm}-${dd}` of the UTC fields of new Date(date)
UtcDay(date) == IF date.kind = "iso" THEN date.t \div 48 ELSE "NaN-NaN-NaN"

----------------------------------------------------------------------------
(* Arrays.  Indices are the code's: 0-based, -1 for "not found".           *)

At(arr, i) == arr[i + 1]

\* arr[i]: an index outside the array reads undefined
NoElement == "undefined"
Elem(arr, i) == IF i >= 0 /\ i < Len(arr) THEN At(arr, i) ELSE NoElement

\* arr[i] ?? 0
AtOrZero(arr, i) == IF i >= 0 /\ i < Len(arr) THEN At(arr, i) ELSE 0

\* Array.prototype.slice(from, to): a negative bound counts from the end
SliceBound(len, k) == IF k < 0 THEN Max2(len + k, 0) ELSE Min2(k, len)
Slice(arr, from, to) ==
    LET a == SliceBound(Len(arr), from)
        b == SliceBound(Len(arr), to)
    IN  IF b <= a THEN <<>> ELSE SubSeq(arr, a + 1, b)

SliceNullable(arr, from, to) ==
    IF arr.present THEN Some(Slice(arr.v, from, to)) ELSE Null

\* the first of a set of indices, -1 when there is none (findIndex's result)
FirstIndex(hits) ==
    IF hits = {} THEN -1 ELSE CHOOSE j \in hits : \A k \in hits : j <= k

\* times.findIndex(t => t.getTime() === target), scanning from index i
FindIndexFrom(times, target, i) ==
    FirstIndex({j \in i..(Len(times) - 1) : At(times, j) = target})

\* times.findIndex(t => t >= now), scanning from index i
FindIndexNotBefore(times, now, i) ==
    FirstIndex({j \in i..(Len(times) - 1) : At(times, j) >= now})

\* A plausible slip: diff <= minDiff, so that the last of several closest wins.
ClosestLastWins(times, target, i, minDiff, idx) ==
    LET rest == i..(Len(times) - 1)
        diff(j) == Abs(At(times, j) - target)
        best == {j \in rest : \A k \in rest : diff(j) <= diff(k)}
        last == CHOOSE j \in best : \A k \in best : j >= k
    IN  IF rest = {} THEN idx
        ELSE IF idx = -1 \/ diff(last) <= minDiff THEN last ELSE idx

\* for (i = 0; i < times.length; i++) { diff = |times[i] - target|;
\*   if (diff < minDiff) { minDiff = diff; idx = i; } }
\* The loop from index i, entered with (minDiff, idx), ends on the first
\* index of the least diff when that diff is below minDiff, and on idx when
\* it is not; minDiff is Infinity exactly while idx is -1.
Closest(times, target, i, minDiff, idx) ==
    LET rest == i..(Len(times) - 1)
        diff(j) == Abs(At(times, j) - target)
        best == {j \in rest : \A k \in rest : diff(j) <= diff(k)}
        first == CHOOSE j \in best : \A k \in best : j <= k
    IN  IF rest = {} THEN idx
        ELSE IF idx = -1 \/ diff(first) < minDiff THEN first ELSE idx

\* the index of the sample for targetDate: an exact match, else the closest
TargetIndex(times, target) ==
    IF FindIndexFrom(times, target, 0) # -1
    THEN FindIndexFrom(times, target, 0)
    ELSE Closest(times, target, 0, PosInfinity, -1)

\* const window = 6
ContextWindow == 6

\* A plausible slip: the "+ 1" that makes the end exclusive left out.
ContextEndOffByOne(len, idx) == Min2(len, idx + ContextWindow)

ContextStart(idx) == Max2(0, idx - ContextWindow)
ContextEnd(len, idx) == Min2(len, idx + ContextWindow + 1)

\* points.reduce((m, p) => (p.precipitation > m ? p.precipitation : m), 0)
MaxPrecip(precs) == IF precs = <<>> THEN 0 ELSE Max2(0, MathMax(precs))

\* A plausible slip: > where >= is meant.
AnyAbove(precs, threshNum) == \E i \in 1..Len(precs) : Less(threshNum, Tenths(precs[i]))

\* points.some(p => p.precipitation >= threshNum)
AnyAtLeast(precs, threshNum) ==
    \E i \in 1..Len(precs) : GreaterEq(Tenths(precs[i]), threshNum)

----------------------------------------------------------------------------
(* The provider's answer.  An hourly payload names the series it holds     *)
(* (has) and gives each; a series it does not hold reads undefined.        *)

RequiredFields == {"time", "precipitation", "temperature_2m", "wind_speed_10m"}

\* A plausible slip: the format check of server.js, which predates the
\* temperature and wind series, kept as it was.
FormatOkLegacy(hourly) == {"hourly", "time", "precipitation"} \subseteq hourly.has

\* !data.hourly || !data.hourly.time || !data.hourly.precipitation || ...
\* (an array, even an empty one, is truthy)
FormatOk(hourly) == "hourly" \in hourly.has /\ RequiredFields \subseteq hourly.has

Nullable(hourly, field, arr) == IF field \in hourly.has THEN Some(arr) ELSE Null

\* one element of contextHours / points
Point(hourly, i) ==
    [time          |-> At(hourly.time, i),
     precipitation |-> Elem(hourly.precipitation, i),
     temperature   |-> Elem(hourly.temperature_2m, i),
     humidity      |-> IF "relative_humidity_2m" \in hourly.has
                       THEN Some(<<Elem(hourly.relative_humidity_2m, i)>>) ELSE Null,
     windSpeed     |-> Elem(hourly.wind_speed_10m, i),
     windDirection |-> IF "wind_direction_10m" \in hourly.has
                       THEN Some(<<Elem(hourly.wind_direction_10m, i)>>) ELSE Null]

Points(hourly, start, end) == [k \in 1..(end - start) |-> Point(hourly, start + k - 1)]

RainEval(precipitation, humidity, hours) ==
    [fn |-> "calculateRainProbability", precipitation |-> precipitation,
     humidity |-> humidity, hours |-> hours,
     ret |-> calculateRainProbability(precipitation, humidity, hours)]

TemperatureEval(temperatures) ==
    [fn |-> "evaluateTemperature", temperatures |-> temperatures,
     ret |-> evaluateTemperature(temperatures)]

WindEval(windSpeeds) ==
    [fn |-> "evaluateWind", windSpeeds |-> windSpeeds, ret |-> evaluateWind(windSpeeds)]

Reply(status, body) == [status |-> status, body |-> body]

----------------------------------------------------------------------------
(* State.                                                                  *)

NoQuery ==
    [lat |-> Undefined, lon |-> Undefined, date |-> NoDate, hours |-> Undefined,
     threshold |-> Undefined, start |-> Undefined, end |-> Undefined]

NoParsed == [hoursNum |-> 0, threshNum |-> Zero(FALSE), targetDate |-> Null]
NoWindow == [mode |-> "none", now |-> 0, idx |-> 0, start |-> 0, end |-> 0]

EmptyHourly ==
    [has |-> {}, time |-> <<>>, precipitation |-> <<>>, temperature_2m |-> <<>>,
     relative_humidity_2m |-> <<>>, wind_speed_10m |-> <<>>, wind_direction_10m |-> <<>>]

Outcome(kind, status, hourly) == [kind |-> kind, status |-> status, hourly |-> hourly]
NoData == Outcome("none", 0, EmptyHourly)

NoCall ==
    [fn |-> "none", precipitation |-> <<>>, humidity |-> Null, hours |-> 0, series |-> <<>>]

Init ==
    /\ pc = "idle"
    /\ route = "none"
    /\ query = NoQuery
    /\ parsed = NoParsed
    /\ window = NoWindow
    /\ fetches = <<>>
    /\ data = NoData
    /\ call = NoCall
    /\ evals = <<>>
    /\ responses = <<>>

----------------------------------------------------------------------------
(* GET /api/willitrain, up to the await of fetch.                          *)

\* A plausible slip: the isNaN(d.getTime()) test left out.
DateInvalidUnchecked(date) == FALSE

\* if (date) { const d = new Date(date); if (isNaN(d.getTime())) return 400 ...
DateInvalid(date) == ~DateFalsy(date) /\ date.kind # "iso"

WillItRainUrl(q) ==
    [hourly     |-> "precipitation,temperature_2m,relative_humidity_2m,wind_speed_10m,wind_direction_10m",
     latitude   |-> q.lat.v,
     longitude  |-> q.lon.v,
     start_date |-> IF DateFalsy(q.date) THEN <<>> ELSE <<UtcDay(q.date)>>,
     end_date   |-> IF DateFalsy(q.date) THEN <<>> ELSE <<UtcDay(q.date)>>]

WillItRainReceive(q) ==
    /\ pc = "idle"
    /\ route' = "/api/willitrain"
    /\ query' = q
    /\ UNCHANGED <<window, data, call, evals>>
    /\ IF Falsy(q.lat) \/ Falsy(q.lon)
       THEN /\ parsed' = [hoursNum |-> HoursNum(q.hours), threshNum |-> ThreshNum(q.threshold),
                          targetDate |-> Null]
            /\ responses' = Append(responses, Reply(400, [error |-> "lat and lon are required"]))
            /\ pc' = "done"
            /\ UNCHANGED fetches
       ELSE IF DateInvalid(q.date)
       THEN /\ parsed' = [hoursNum |-> HoursNum(q.hours), threshNum |-> ThreshNum(q.threshold),
                          targetDate |-> Null]
            /\ responses' = Append(responses, Reply(400, [error |-> "invalid date"]))
            /\ pc' = "done"
            /\ UNCHANGED fetches
       ELSE /\ parsed' = [hoursNum |-> HoursNum(q.hours), threshNum |-> ThreshNum(q.threshold),
                          targetDate |-> IF DateFalsy(q.date) THEN Null
                                         ELSE Some(<<GetTime(q.date)>>)]
            /\ fetches' = Append(fetches, WillItRainUrl(q))
            /\ pc' = "fetching"
            /\ UNCHANGED responses

----------------------------------------------------------------------------
(* GET /api/willitrain, from the provider's answer to the response: one    *)
(* step for each await that settles.                                       *)

\* data.hourly.<series>.map(Number) of a series that is undefined throws
MapThrows(hourly) == ~(RequiredFields \subseteq hourly.has)

SpecificBody(hourly, target, threshNum, idx, start, end) ==
    [mode            |-> "specific_date",
     requestedDate   |-> target,
     willRain        |-> GreaterEq(Tenths(AtOrZero(hourly.precipitation, idx)), threshNum),
     rainProbability |-> calculateRainProbability(
                             Slice(hourly.precipitation, start, end),
                             SliceNullable(Nullable(hourly, "relative_humidity_2m",
                                                    hourly.relative_humidity_2m), start, end),
                             end - start),
     precipitationMm |-> AtOrZero(hourly.precipitation, idx),
     temperature     |-> AtOrZero(hourly.temperature_2m, idx),
     temperatureData |-> evaluateTemperature(Slice(hourly.temperature_2m, start, end)),
     windData        |-> evaluateWind(Slice(hourly.wind_speed_10m, start, end)),
     thresholdMm     |-> threshNum,
     contextHours    |-> Points(hourly, start, end)]

ForwardBody(hourly, hoursNum, threshNum, startIdx) ==
    LET from == startIdx
        to   == startIdx + hoursNum
        a    == SliceBound(Len(hourly.time), from)
        b    == Max2(a, SliceBound(Len(hourly.time), to))
        \* p.precipitation of the points that have one: slicePrecs[i] for i < points.length
        shown == SubSeq(Slice(hourly.precipitation, from, to), 1,
                        Min2(Len(Slice(hourly.precipitation, from, to)), b - a))
    IN  [mode               |-> "next_hours",
         willRain           |-> AnyAtLeast(shown, threshNum),
         rainProbability    |-> calculateRainProbability(
                                    Slice(hourly.precipitation, from, to),
                                    SliceNullable(Nullable(hourly, "relative_humidity_2m",
                                                           hourly.relative_humidity_2m), from, to),
                                    hoursNum),
         maxPrecipitationMm |-> MaxPrecip(shown),
         temperatureData    |-> evaluateTemperature(Slice(hourly.temperature_2m, from, to)),
         windData           |-> evaluateWind(Slice(hourly.wind_speed_10m, from, to)),
         hoursAnalyzed      |-> b - a,
         thresholdMm        |-> threshNum,
         points             |-> Points(hourly, a, b)]

InternalError == Reply(500, [error |-> "internal error"])

\* await fetch(url) settles: fetch rejects, or resolves to a response that is
\* not ok, or to one that is, whose body the handler then awaits
WillItRainFetched(o) ==
    /\ pc = "fetching"
    /\ route = "/api/willitrain"
    /\ data' = o
    /\ UNCHANGED <<route, query, parsed, window, fetches, call, evals>>
    /\ IF o.kind = "network_error"
       THEN /\ responses' = Append(responses, InternalError)
            /\ pc' = "done"
       ELSE IF o.kind = "status"
       THEN /\ responses' = Append(responses, Reply(o.status, [error |-> "weather provider error"]))
            /\ pc' = "done"
       ELSE /\ pc' = "parsing"
            /\ UNCHANGED responses

\* await resp.json() settles; new Date() is read in this step
WillItRainResume(o, now) ==
    /\ pc = "parsing"
    /\ route = "/api/willitrain"
    /\ data' = o
    /\ pc' = "done"
    /\ UNCHANGED <<route, query, parsed, fetches, call>>
    /\ IF o.kind \in {"bad_json", "null"}
       THEN \* resp.json() rejects, or data is null and data.hourly throws
            /\ responses' = Append(responses, InternalError)
            /\ UNCHANGED <<window, evals>>
       ELSE IF ~FormatOk(o.hourly)
       THEN /\ responses' = Append(responses, Reply(502, [error |-> "unexpected weather data format"]))
            /\ UNCHANGED <<window, evals>>
       ELSE IF MapThrows(o.hourly)
       THEN /\ responses' = Append(responses, InternalError)
            /\ UNCHANGED <<window, evals>>
       ELSE IF parsed.targetDate.present
       THEN LET h     == o.hourly
                idx   == TargetIndex(h.time, parsed.targetDate.v[1])
                start == ContextStart(idx)
                end   == ContextEnd(Len(h.time), idx)
            IN  /\ window' = [mode |-> "specific_date", now |-> 0, idx |-> idx,
                              start |-> start, end |-> end]
                /\ evals' = evals \o
                     << RainEval(Slice(h.precipitation, start, end),
                                 SliceNullable(Nullable(h, "relative_humidity_2m",
                                                        h.relative_humidity_2m), start, end),
                                 end - start),
                        TemperatureEval(Slice(h.temperature_2m, start, end)),
                        WindEval(Slice(h.wind_speed_10m, start, end)) >>
                /\ responses' = Append(responses,
                     Reply(200, SpecificBody(h, parsed.targetDate.v[1], parsed.threshNum,
                                             idx, start, end)))
       ELSE LET h        == o.hourly
                found    == FindIndexNotBefore(h.time, now, 0)
                startIdx == IF found = -1 THEN Len(h.time) - 1 ELSE found
                to       == startIdx + parsed.hoursNum
            IN  /\ window' = [mode |-> "next_hours", now |-> now, idx |-> startIdx,
                              start |-> SliceBound(Len(h.time), startIdx),
                              end |-> Max2(SliceBound(Len(h.time), startIdx),
                                           SliceBound(Len(h.time), to))]
                /\ evals' = evals \o
                     << RainEval(Slice(h.precipitation, startIdx, to),
                                 SliceNullable(Nullable(h, "relative_humidity_2m",
                                                        h.relative_humidity_2m), startIdx, to),
                                 parsed.hoursNum),
                        TemperatureEval(Slice(h.temperature_2m, startIdx, to)),
                        WindEval(Slice(h.wind_speed_10m, startIdx, to)) >>
                /\ responses' = Append(responses,
                     Reply(200, ForwardBody(h, parsed.hoursNum, parsed.threshNum, startIdx)))

----------------------------------------------------------------------------
(* GET /api/weather: the pass-through proxy.                               *)

WeatherUrl(q) ==
    [hourly     |-> "precipitation,temperature_2m",
     latitude   |-> q.lat.v,
     longitude  |-> q.lon.v,
     start_date |-> IF Falsy(q.start) THEN <<>> ELSE <<q.start.v>>,
     end_date   |-> IF Falsy(q.end) THEN <<>> ELSE <<q.end.v>>]

WeatherReceive(q) ==
    /\ pc = "idle"
    /\ route' = "/api/weather"
    /\ query' = q
    /\ UNCHANGED <<parsed, window, data, call, evals>>
    /\ IF Falsy(q.lat) \/ Falsy(q.lon)
       THEN /\ responses' = Append(responses, Reply(400, [error |-> "lat and lon are required"]))
            /\ pc' = "done"
            /\ UNCHANGED fetches
       ELSE /\ fetches' = Append(fetches, WeatherUrl(q))
            /\ pc' = "fetching"
            /\ UNCHANGED responses

\* await fetch(url) settles
WeatherFetched(o) ==
    /\ pc = "fetching"
    /\ route = "/api/weather"
    /\ data' = o
    /\ UNCHANGED <<route, query, parsed, window, fetches, call, evals>>
    /\ IF o.kind = "network_error"
       THEN /\ responses' = Append(responses, InternalError)
            /\ pc' = "done"
       ELSE IF o.kind = "status"
       THEN /\ responses' = Append(responses, Reply(o.status, [error |-> "weather provider error"]))
            /\ pc' = "done"
       ELSE /\ pc' = "parsing"
            /\ UNCHANGED responses

\* await resp.json() settles
WeatherResume(o) ==
    /\ pc = "parsing"
    /\ route = "/api/weather"
    /\ data' = o
    /\ pc' = "done"
    /\ UNCHANGED <<route, query, parsed, window, fetches, call, evals>>
    /\ IF o.kind = "bad_json"
       THEN responses' = Append(responses, InternalError)
       ELSE \* res.json(data), whatever data is
            responses' = Append(responses, Reply(200, [passthrough |-> o.kind, hourly |-> o.hourly]))

----------------------------------------------------------------------------
(* GET /: the greeting.                                                    *)

\* res.send(text): status 200, nothing read from the request, no outbound call
Root ==
    /\ pc = "idle"
    /\ route' = "/"
    /\ responses' = Append(responses, Reply(200, [text |-> "¡Hola! El servidor Express funciona."]))
    /\ pc' = "done"
    /\ UNCHANGED <<query, parsed, window, fetches, data, call, evals>>

----------------------------------------------------------------------------
(* GET /api/willitrain of server.js: precipitation only, no evaluators.    *)

\* up to await fetch(url): as part_000, but hourly: 'precipitation'
LegacyReceive(q) ==
    /\ pc = "idle"
    /\ route' = "/api/willitrain"
    /\ query' = q
    /\ UNCHANGED <<window, data, call, evals>>
    /\ IF Falsy(q.lat) \/ Falsy(q.lon)
       THEN /\ parsed' = [hoursNum |-> HoursNum(q.hours), threshNum |-> ThreshNum(q.threshold),
                          targetDate |-> Null]
            /\ responses' = Append(responses, Reply(400, [error |-> "lat and lon are required"]))
            /\ pc' = "done"
            /\ UNCHANGED fetches
       ELSE IF DateInvalid(q.date)
       THEN /\ parsed' = [hoursNum |-> HoursNum(q.hours), threshNum |-> ThreshNum(q.threshold),
                          targetDate |-> Null]
            /\ responses' = Append(responses, Reply(400, [error |-> "invalid date"]))
            /\ pc' = "done"
            /\ UNCHANGED fetches
       ELSE /\ parsed' = [hoursNum |-> HoursNum(q.hours), threshNum |-> ThreshNum(q.threshold),
                          targetDate |-> IF DateFalsy(q.date) THEN Null
                                         ELSE Some(<<GetTime(q.date)>>)]
            /\ fetches' = Append(fetches, [WillItRainUrl(q) EXCEPT !.hourly = "precipitation"])
            /\ pc' = "fetching"
            /\ UNCHANGED responses

\* { time: times[i].toISOString(), precipitation: precs[i] } for i in start..end-1
LegacyPoints(hourly, start, end) ==
    [k \in 1..(end - start) |->
        [time          |-> At(hourly.time, start + k - 1),
         precipitation |-> Elem(hourly.precipitation, start + k - 1)]]

LegacySpecificBody(hourly, target, threshNum, idx, start, end) ==
    [mode            |-> "specific_date",
     requestedDate   |-> target,
     willRain        |-> GreaterEq(Tenths(AtOrZero(hourly.precipitation, idx)), threshNum),
     precipitationMm |-> AtOrZero(hourly.precipitation, idx),
     thresholdMm     |-> threshNum,
     contextHours    |-> LegacyPoints(hourly, start, end)]

LegacyForwardBody(hourly, hoursNum, threshNum, startIdx) ==
    LET from == startIdx
        to   == startIdx + hoursNum
        a    == SliceBound(Len(hourly.time), from)
        b    == Max2(a, SliceBound(Len(hourly.time), to))
        \* p.precipitation of the points that have one: slicePrecs[i] for i < points.length
        shown == SubSeq(Slice(hourly.precipitation, from, to), 1,
                        Min2(Len(Slice(hourly.precipitation, from, to)), b - a))
    IN  [mode               |-> "next_hours",
         willRain           |-> AnyAtLeast(shown, threshNum),
         maxPrecipitationMm |-> MaxPrecip(shown),
         hoursAnalyzed      |-> b - a,
         thresholdMm        |-> threshNum,
         points             |-> LegacyPoints(hourly, a, b)]

\* await resp.json() settles; new Date() is read in this step.  The format
\* check asks for hourly, time and precipitation only, and those are the
\* series the handler maps, so no map throws on a payload that passed it.
LegacyResume(o, now) ==
    /\ pc = "parsing"
    /\ route = "/api/willitrain"
    /\ data' = o
    /\ pc' = "done"
    /\ UNCHANGED <<route, query, parsed, fetches, call, evals>>
    /\ IF o.kind \in {"bad_json", "null"}
       THEN \* resp.json() rejects, or data is null and data.hourly throws
            /\ responses' = Append(responses, InternalError)
            /\ UNCHANGED window
       ELSE IF ~({"hourly", "time", "precipitation"} \subseteq o.hourly.has)
       THEN /\ responses' = Append(responses, Reply(502, [error |-> "unexpected weather data format"]))
            /\ UNCHANGED window
       ELSE IF parsed.targetDate.present
       THEN LET h     == o.hourly
                idx   == TargetIndex(h.time, parsed.targetDate.v[1])
                start == ContextStart(idx)
                end   == ContextEnd(Len(h.time), idx)
            IN  /\ window' = [mode |-> "specific_date", now |-> 0, idx |-> idx,
                              start |-> start, end |-> end]
                /\ responses' = Append(responses,
                     Reply(200, LegacySpecificBody(h, parsed.targetDate.v[1], parsed.threshNum,
                                                   idx, start, end)))
       ELSE LET h        == o.hourly
                found    == FindIndexNotBefore(h.time, now, 0)
                startIdx == IF found = -1 THEN Len(h.time) - 1 ELSE found
                to       == startIdx + parsed.hoursNum
            IN  /\ window' = [mode |-> "next_hours", now |-> now, idx |-> startIdx,
                              start |-> SliceBound(Len(h.time), startIdx),
                              end |-> Max2(SliceBound(Len(h.time), startIdx),
                                           SliceBound(Len(h.time), to))]
                /\ responses' = Append(responses,
                     Reply(200, LegacyForwardBody(h, parsed.hoursNum, parsed.threshNum, startIdx)))

----------------------------------------------------------------------------
(* The evaluators called on their own.                                     *)

DirectCall(fn, ev) ==
    /\ pc = "idle"
    /\ call.fn = fn
    /\ route' = "direct"
    /\ evals' = Append(evals, ev)
    /\ pc' = "done"
    /\ UNCHANGED <<query, parsed, window, fetches, data, call, responses>>

CallRainProbability ==
    DirectCall("calculateRainProbability",
               RainEval(call.precipitation, call.humidity, call.hours))

CallEvaluateTemperature == DirectCall("evaluateTemperature", TemperatureEval(call.series))

CallEvaluateWind == DirectCall("evaluateWind", WindEval(call.series))

----------------------------------------------------------------------------
(* Bounds and the inputs drawn within them.                                *)

MaxSeries == 3      \* samples in a provider series, request life cycle
MaxSamples == 3     \* samples in a series handed to an evaluator called on its own
MaxHumidity == 2    \* samples in a humidity series handed to calculateRainProbability
MaxHoursArg == 5    \* the hours argument of calculateRainProbability called on its own
MaxParamLen == 3    \* characters in an hours parameter
MaxScattered == 3   \* samples in a series whose instants are in no order
MaxHourly == 15     \* samples in an hourly series, instant selection
LongWindow == 40    \* samples in a long series handed to calculateRainProbability

SeqsUpTo(S, n) == UNION {[1..k -> S] : k \in 0..n}
SeqsFrom1To(S, n) == UNION {[1..k -> S] : k \in 1..n}

Constant(len, v) == [i \in 1..len |-> v]
\* an optional series: absent, or the one value of opt at every sample
MaybeConstant(len, opt) == IF opt.present THEN Some(Constant(len, opt.v[1])) ELSE Null
Ramp(len, base) == [i \in 1..len |-> base + i]
\* an hourly series: one sample per hour, the first at 01:00
HourlyTimes(len) == [i \in 1..len |-> 2 * i]

Hourly(time, precipitation, temperature, humidity, windSpeed, windDirection) ==
    [has |-> {"hourly"} \cup RequiredFields
               \cup (IF humidity.present THEN {"relative_humidity_2m"} ELSE {})
               \cup (IF windDirection.present THEN {"wind_direction_10m"} ELSE {}),
     time |-> time, precipitation |-> precipitation, temperature_2m |-> temperature,
     relative_humidity_2m |-> humidity.v, wind_speed_10m |-> windSpeed,
     wind_direction_10m |-> windDirection.v]

\* the payload with one series, or hourly itself, not sent
Without(hourly, field) ==
    IF field = "hourly" THEN [hourly EXCEPT !.has = {}]
    ELSE [hourly EXCEPT !.has = @ \ {field}, ![field] = <<>>]

PrecLevels == {0, 1, 2}             \* 0 mm, 0.1 mm, 0.2 mm
HumidityLevels == {40, 60, 80, 100}
TempLevels == {-1, 0, 4, 5, 20, 30, 31, 35, 36}
WindLevels == {0, 10, 11, 20, 21}

Present == Str(<<"4", "0">>)
LatLonParams == {Undefined, Str(<<>>), Present}

Query(lat, lon, date, hours, threshold) ==
    [lat |-> lat, lon |-> lon, date |-> date, hours |-> hours, threshold |-> threshold,
     start |-> Undefined, end |-> Undefined]

(* Request life cycle. *)
Instants == 0..(2 * MaxSeries + 2)
\* new Date() when the answer arrives: before the series, inside it, after it
Clock == {1, 4, 2 * MaxSeries + 1}
Dates == {NoDate, EmptyDate, BadDate} \cup {IsoDate(t) : t \in Instants}
HoursParams == {Undefined, Str(<<"1">>), Str(<<"2">>)}
\* the default 0.1 mm, 0.15 mm (between two sample levels), and a negative one
\* a threshold of more digits than a double holds: it is the double 0.1
LongTenth == <<"0", ".", "1", "0", "0", "0", "0", "0", "0", "0", "0", "0", "0", "0", "0", "0", "0", "0", "0", "0", "0", "1">>
\* the last one is 0.15 again, written '15e-00000002'
ThresholdParams ==
    {Undefined, Str(<<"0", ".", "1", "5">>), Str(<<"-", "1">>), Str(LongTenth),
     Str(<<"1", "5", "e", "-", "0", "0", "0", "0", "0", "0", "0", "2">>)}

Queries ==
    {Query(Present, Present, d, h, th) : d \in Dates, h \in HoursParams, th \in ThresholdParams}
    \cup {Query(lat, lon, d, Undefined, Undefined) :
            lat \in LatLonParams, lon \in LatLonParams, d \in {NoDate, BadDate, IsoDate(2)}}

WeatherQueries ==
    {[Query(lat, lon, NoDate, Undefined, Undefined) EXCEPT !.start = st, !.end = en] :
        lat \in LatLonParams, lon \in LatLonParams,
        st \in {Undefined, Str(<<"d", "1">>)}, en \in {Undefined, Str(<<"d", "2">>)}}

RainPayloads ==
    {Hourly(HourlyTimes(Len(p)), p, Constant(Len(p), 20), MaybeConstant(Len(p), hum),
            Constant(Len(p), 5), Null) :
        p \in SeqsUpTo(PrecLevels, MaxSeries), hum \in {Null, Some(<<70>>), Some(<<90>>)}}

ClimatePayloads ==
    {Hourly(HourlyTimes(len), Constant(len, 0), Ramp(len, t), Null, Ramp(len, w),
            MaybeConstant(len, dir)) :
        len \in 1..MaxSeries, t \in {-2, 33}, w \in {5, 19},
        dir \in {Null, Some(<<180>>)}}

SamplePayload ==
    Hourly(HourlyTimes(2), <<0, 2>>, <<20, 21>>, Some(<<70, 90>>), <<5, 6>>, Some(<<0, 90>>))

PartialPayloads ==
    {Without(SamplePayload, f) : f \in RequiredFields \cup {"hourly", "relative_humidity_2m"}}

\* what await fetch(url) can settle to
Ok == Outcome("ok", 200, EmptyHourly)
Fetched ==
    {Outcome("network_error", 0, EmptyHourly), Ok}
    \cup {Outcome("status", st, EmptyHourly) : st \in {404, 429, 500, 503}}

\* what await resp.json() can settle to: no JSON, the JSON value null, a payload
Unparsed == Outcome("bad_json", 200, EmptyHourly)
JsonNull == Outcome("null", 200, EmptyHourly)
Bodies ==
    {Unparsed, JsonNull}
    \cup {Outcome("json", 200, h) : h \in RainPayloads \cup ClimatePayloads \cup PartialPayloads}

WillItRain == \E q \in Queries : WillItRainReceive(q)
WillItRainResponse == \E o \in Fetched : WillItRainFetched(o)
WillItRainReply == \E o \in Bodies, now \in Clock : WillItRainResume(o, now)
Weather == \E q \in WeatherQueries : WeatherReceive(q)
WeatherResponse == \E o \in Fetched : WeatherFetched(o)
WeatherReply ==
    \E o \in {Unparsed, JsonNull, Outcome("json", 200, SamplePayload)} : WeatherResume(o)

Next ==
    \/ WillItRain
    \/ WillItRainResponse
    \/ WillItRainReply
    \/ Weather
    \/ WeatherResponse
    \/ WeatherReply
    \/ Root

Spec == Init /\ [][Next]_vars

(* server.js: the same requests, provider answers and clock. *)
NextLegacy ==
    \/ \E q \in Queries : LegacyReceive(q)
    \/ WillItRainResponse
    \/ \E o \in Bodies, now \in Clock : LegacyResume(o, now)
    \/ Weather
    \/ WeatherResponse
    \/ WeatherReply
    \/ Root

SpecLegacy == Init /\ [][NextLegacy]_vars

(* Parameter parsing: every hours string over a small alphabet. *)
\* just under 2^-1075, which parses to 0, and just under 2^1024 - 2^970, which
\* parses to Number.MAX_VALUE
ThresholdTexts ==
    {<<"x">>, <<"0">>, <<"1", ".", "5">>, <<"0", ".", "2", "5">>, <<".", "0", "5">>,
     <<"1", "e", "1">>, <<"5", "e", "-", "1">>, <<"\t", "1", ".", "5">>,
     <<"I", "n", "f", "i", "n", "i", "t", "y">>, <<"-", "I", "n", "f", "i", "n", "i", "t", "y">>}
ParamQueries ==
    {Query(Present, Present, NoDate, h, th) :
        h \in {Undefined} \cup {Str(cs) : cs \in SeqsUpTo({"-", "0", "1", "7", "x", " ", "\t"}, MaxParamLen)},
        th \in {Undefined} \cup {Str(cs) : cs \in ThresholdTexts}}
    \cup {Query(Present, Present, NoDate, Undefined, Str(cs)) :
            cs \in {LongTenth,
                    <<"2", ".", "4", "7", "0", "3", "2", "8", "2", "2", "9", "2", "0", "6", "2", "3", "2", "7", "2", "0", "8", "0", "1", "e", "-", "3", "2", "4">>,
                    <<"1", "7", "9", "7", "6", "9", "3", "1", "3", "4", "8", "6", "2", "3", "1", "5", "8", "0", "7", "9", "e", "2", "8", "9">>}}

ParamRequest == \E q \in ParamQueries : WillItRainReceive(q)
NextParams == ParamRequest
SpecParams == Init /\ [][NextParams]_vars

(* Instant selection: series in no order and with repeated instants, and   *)
(* hourly series long enough for a context window that no end clips.       *)
SelectPayloads ==
    {Hourly(ts, Ramp(Len(ts), 0), Ramp(Len(ts), 5), Null, Ramp(Len(ts), 0), Null) :
        ts \in SeqsFrom1To(0..MaxScattered, MaxScattered)
               \cup {HourlyTimes(len) : len \in 1..MaxHourly}}

SelectRequest ==
    \E t \in 0..(2 * MaxHourly + 2) : WillItRainReceive(Query(Present, Present, IsoDate(t), Undefined, Undefined))
SelectResponse == WillItRainFetched(Ok)
SelectReply == \E h \in SelectPayloads : WillItRainResume(Outcome("json", 200, h), 0)
NextSelect == SelectRequest \/ SelectResponse \/ SelectReply
SpecSelect == Init /\ [][NextSelect]_vars

(* The evaluators called on their own. *)
RainCalls ==
    {[fn |-> "calculateRainProbability", precipitation |-> p, humidity |-> h,
      hours |-> hours, series |-> <<>>] :
        p \in SeqsUpTo(PrecLevels, MaxSamples), h \in {Null} \cup {Some(s) : s \in SeqsUpTo(HumidityLevels, MaxHumidity)}, hours \in 1..MaxHoursArg}

\* a window as long as its hours, raining in about half of them: 23 of 40 is
\* where the double quotient falls short of the half 57.5
LongSeries ==
    {[i \in 1..LongWindow |-> IF i <= n THEN 2 ELSE 0] :
        n \in (LongWindow \div 2)..(LongWindow \div 2 + 5)}

SeriesCalls(fn, levels) ==
    {[fn |-> fn, precipitation |-> <<>>, humidity |-> Null, hours |-> 0, series |-> ts] :
        ts \in SeqsFrom1To(levels, MaxSamples)}

\* the calls the evaluators' contracts allow: hours >= 1, at most hours
\* precipitation samples, a non-empty temperature or wind series
InitEval ==
    /\ pc = "idle"
    /\ route = "none"
    /\ query = NoQuery
    /\ parsed = NoParsed
    /\ window = NoWindow
    /\ fetches = <<>>
    /\ data = NoData
    /\ call \in {c \in RainCalls : Len(c.precipitation) <= c.hours}
                 \cup {[fn |-> "calculateRainProbability", precipitation |-> p, humidity |-> h,
                   hours |-> LongWindow, series |-> <<>>] :
                     p \in LongSeries, h \in {Null, Some(<<70>>), Some(<<90>>)}}
                 \cup SeriesCalls("evaluateTemperature", TempLevels)
                 \cup SeriesCalls("evaluateWind", WindLevels)
    /\ evals = <<>>
    /\ responses = <<>>

NextEval == CallRainProbability \/ CallEvaluateTemperature \/ CallEvaluateWind
SpecEval == InitEval /\ [][NextEval]_vars

----------------------------------------------------------------------------
(* Properties.                                                             *)

\* the request was answered, and by a computed result
Answered == pc = "done" /\ route = "/api/willitrain" /\ Len(responses) = 1
Succeeded(mode) == Answered /\ responses[1].status = 200 /\ responses[1].body.mode = mode
DirectlyCalled(fn) == route = "direct" /\ Len(evals) = 1 /\ evals[1].fn = fn

\* the number of samples of p strictly above level
SamplesAbove(p, level) == Cardinality({i \in DOMAIN p : p[i] > level})

\* C1: called with hours >= 1, at most hours precipitation samples and any
\* humidity input, calculateRainProbability returns an integer in 0..100, and
\* no precipitation series with at least as many samples above 0.1 mm (same
\* humidity, same hours) gets a smaller result.
C1_RainProbabilityBoundedMonotone ==
    DirectlyCalled("calculateRainProbability") =>
        LET made == evals[1]
        IN  /\ made.hours >= 1 /\ Len(made.precipitation) <= made.hours
            /\ made.ret \in 0..100
            /\ \A p2 \in SeqsUpTo(PrecLevels, MaxSamples) \cup LongSeries :
                   (Len(p2) <= made.hours
                      /\ SamplesAbove(p2, 1) >= SamplesAbove(made.precipitation, 1))
                   => calculateRainProbability(p2, made.humidity, made.hours) >= made.ret

\* C1 witness: every hour of the window rains and the humidity mean is above
\* 80, so base plus bonus is 110 and the result is cut to 100.
C1_Witness ==
    /\ DirectlyCalled("calculateRainProbability")
    /\ SamplesAbove(evals[1].precipitation, 1) = evals[1].hours
    /\ evals[1].humidity.present
    /\ Len(evals[1].humidity.v) > 0
    /\ Sum(evals[1].humidity.v) > 80 * Len(evals[1].humidity.v)
    /\ evals[1].ret = 100

\* C2: evaluateTemperature gives a non-empty series exactly the status of the
\* first rule that matches: a sample above 35 -> muy_alta; else one below 0 ->
\* muy_baja; else one above 30 -> alta; else one below 5 -> baja; else normal.
C2_TemperatureStatusFirstMatch ==
    DirectlyCalled("evaluateTemperature") =>
        LET ts     == evals[1].temperatures
            status == evals[1].ret.status
            over35 == \E i \in DOMAIN ts : ts[i] > 35
            under0 == \E i \in DOMAIN ts : ts[i] < 0
            over30 == \E i \in DOMAIN ts : ts[i] > 30
            under5 == \E i \in DOMAIN ts : ts[i] < 5
        IN  /\ status \in {"muy_alta", "muy_baja", "alta", "baja", "normal"}
            /\ (status = "muy_alta") <=> over35
            /\ (status = "muy_baja") <=> (~over35 /\ under0)
            /\ (status = "alta") <=> (~over35 /\ ~under0 /\ over30)
            /\ (status = "baja") <=> (~over35 /\ ~under0 /\ ~over30 /\ under5)
            /\ (status = "normal") <=> (~over35 /\ ~under0 /\ ~over30 /\ ~under5)

\* C2 witness: [36, 20, -1] has a sample above 35 and one below 0, and is muy_alta.
C2_Witness ==
    /\ DirectlyCalled("evaluateTemperature")
    /\ evals[1].temperatures = <<36, 20, -1>>
    /\ evals[1].ret.status = "muy_alta"

\* the distance of sample i (0-based) of the received series to the target
Distance(i) == Abs(data.hourly.time[i + 1] - parsed.targetDate.v[1])

\* C3: in specific-instant mode on a non-empty series, idx is the first index
\* whose instant equals the target if there is one; otherwise no index is
\* closer to the target than idx and every lower index is farther; and the
\* response reports the sample at idx.
C3_NearestIndex ==
    (Succeeded("specific_date") /\ Len(data.hourly.time) >= 1) =>
        LET len == Len(data.hourly.time)
            idx == window.idx
        IN  /\ idx \in 0..(len - 1)
            /\ \A i \in 0..(len - 1) : Distance(idx) <= Distance(i)
            /\ \A i \in 0..(idx - 1) : Distance(i) > Distance(idx)
            /\ (\E i \in 0..(len - 1) : Distance(i) = 0) => Distance(idx) = 0
            /\ responses[1].body.precipitationMm = data.hourly.precipitation[idx + 1]
            /\ responses[1].body.temperature = data.hourly.temperature_2m[idx + 1]

\* C3 witness: no sample is at the target, two are equally close, and the
\* lower of the two indices is selected.
C3_Witness ==
    /\ Succeeded("specific_date")
    /\ Len(data.hourly.time) >= 2
    /\ Distance(window.idx) > 0
    /\ \E j \in (window.idx + 1)..(Len(data.hourly.time) - 1) : Distance(j) = Distance(window.idx)

\* C4: in specific-instant mode on a series of length L >= 1, contextHours and
\* the series handed to the three evaluators are the samples at the indices
\* max(0, idx-6) .. min(L, idx+7) - 1, in order: idx is among them, they are at
\* most 13, they start at index 0 when idx = 0 and end at L-1 when idx = L-1.
C4_ContextWindow ==
    (Succeeded("specific_date") /\ Len(data.hourly.time) >= 1) =>
        LET h   == data.hourly
            len == Len(h.time)
            idx == window.idx
            lo  == IF idx - 6 > 0 THEN idx - 6 ELSE 0
            hi  == IF idx + 7 < len THEN idx + 7 ELSE len
            ctx == responses[1].body.contextHours
        IN  /\ Len(ctx) = hi - lo
            /\ \A k \in 1..Len(ctx) :
                   /\ ctx[k].time = h.time[lo + k]
                   /\ ctx[k].precipitation = h.precipitation[lo + k]
                   /\ ctx[k].temperature = h.temperature_2m[lo + k]
                   /\ ctx[k].windSpeed = h.wind_speed_10m[lo + k]
            /\ evals[1].precipitation = [k \in 1..(hi - lo) |-> h.precipitation[lo + k]]
            /\ evals[2].temperatures = [k \in 1..(hi - lo) |-> h.temperature_2m[lo + k]]
            /\ evals[3].windSpeeds = [k \in 1..(hi - lo) |-> h.wind_speed_10m[lo + k]]
            /\ Len(ctx) <= 13
            /\ idx - lo + 1 \in 1..Len(ctx)
            /\ ctx[idx - lo + 1].time = h.time[idx + 1]
            /\ (idx = 0) => ctx[1].time = h.time[1]
            /\ (idx = len - 1) => ctx[Len(ctx)].time = h.time[len]

\* C4 witness: a window that neither end of the series clips: 13 samples,
\* six before idx and six after it.
C4_Witness ==
    /\ Succeeded("specific_date")
    /\ Len(responses[1].body.contextHours) = 13
    /\ window.start > 0
    /\ window.end < Len(data.hourly.time)
    /\ window.idx = window.start + 6

\* a precipitation (tenths of a millimetre) is at or above a threshold (millimetres)
AtOrAbove(precipitation, thresholdMm) == ~Less(Tenths(precipitation), thresholdMm)

\* C5 as stated: in both modes willRain holds exactly when some sample of the
\* response's window (contextHours, points) is at or above the threshold, and
\* in forward mode exactly when maxPrecipitationMm is.
C5_Original_WillRainIffAnyWindowSample ==
    /\ Succeeded("specific_date") =>
           LET b == responses[1].body
           IN  b.willRain <=> \E k \in DOMAIN b.contextHours :
                                  AtOrAbove(b.contextHours[k].precipitation, b.thresholdMm)
    /\ Succeeded("next_hours") =>
           LET b == responses[1].body
           IN  /\ b.willRain <=> \E k \in DOMAIN b.points :
                                     AtOrAbove(b.points[k].precipitation, b.thresholdMm)
               /\ b.willRain <=> AtOrAbove(b.maxPrecipitationMm, b.thresholdMm)

\* C5 amended: in specific-instant mode willRain holds exactly when the
\* reported precipitationMm, the precipitation of the selected sample (0 when
\* there is none), is at or above the threshold; in forward mode exactly when
\* some sample of points is, which for a positive threshold is the same as
\* maxPrecipitationMm being at or above it.
C5_WillRain ==
    /\ Succeeded("specific_date") =>
           LET b   == responses[1].body
               ctx == b.contextHours
               at  == window.idx - window.start + 1
           IN  /\ b.willRain <=> AtOrAbove(b.precipitationMm, b.thresholdMm)
               /\ b.precipitationMm = IF ctx = <<>> THEN 0 ELSE ctx[at].precipitation
               /\ b.thresholdMm = parsed.threshNum
    /\ Succeeded("next_hours") =>
           LET b == responses[1].body
           IN  /\ b.willRain <=> \E k \in DOMAIN b.points :
                                     AtOrAbove(b.points[k].precipitation, b.thresholdMm)
               /\ Less(Zero(FALSE), b.thresholdMm)
                      => (b.willRain <=> AtOrAbove(b.maxPrecipitationMm, b.thresholdMm))
               /\ b.thresholdMm = parsed.threshNum

\* C5 witness: the selected sample is below the threshold, another sample of
\* contextHours is at or above it, and willRain is false.
C5_Witness ==
    /\ Succeeded("specific_date")
    /\ ~AtOrAbove(responses[1].body.precipitationMm, responses[1].body.thresholdMm)
    /\ \E k \in DOMAIN responses[1].body.contextHours :
           AtOrAbove(responses[1].body.contextHours[k].precipitation,
                     responses[1].body.thresholdMm)
    /\ ~responses[1].body.willRain

\* the request lacks lat or lon, or carries a date that is no valid instant
\* (an empty date parameter counts as none, as an empty lat or lon counts as missing)
LatLonMissing == query.lat \in {Undefined, Str(<<>>)} \/ query.lon \in {Undefined, Str(<<>>)}
DateMalformed == route = "/api/willitrain" /\ query.date.kind = "invalid"

\* C6: a request without lat or lon, or to /api/willitrain with a date that
\* does not parse, is answered 400 with an error payload and no outbound call;
\* and no request makes more than one outbound call.
C6_RejectedBeforeFetch ==
    /\ Len(fetches) <= 1
    /\ (route \in {"/api/willitrain", "/api/weather"} /\ (LatLonMissing \/ DateMalformed)) =>
           /\ pc = "done"
           /\ fetches = <<>>
           /\ Len(responses) = 1
           /\ responses[1].status = 400
           /\ DOMAIN responses[1].body = {"error"}

\* C6 witness: lat and lon given, the date malformed: 400 'invalid date', no call.
C6_Witness ==
    /\ route = "/api/willitrain"
    /\ ~LatLonMissing
    /\ DateMalformed
    /\ pc = "done"
    /\ fetches = <<>>
    /\ responses = <<Reply(400, [error |-> "invalid date"])>>

ResultFields == {"willRain", "rainProbability", "points", "contextHours"}
ErrorReply(status, message) ==
    /\ responses[1].status = status
    /\ DOMAIN responses[1].body = {"error"}
    /\ responses[1].body.error = message

\* C7: a /api/willitrain request that passed validation (it made its outbound
\* call) has no response while it waits and exactly one once it is done: the
\* provider's status with 'weather provider error' for a non-success status,
\* 502 'unexpected weather data format' for a payload without hourly or one
\* of its time, precipitation, temperature, wind speed series, 500 'internal
\* error' when fetch or the body's parsing throws or the body is null; and a
\* failure body carries no result field.
C7_FailureResponses ==
    (route = "/api/willitrain" /\ Len(fetches) = 1) =>
        /\ pc \in {"fetching", "parsing"} => responses = <<>>
        /\ pc = "done" =>
            /\ Len(responses) = 1
            /\ data.kind = "status" => ErrorReply(data.status, "weather provider error")
            /\ (data.kind = "json"
                  /\ \E f \in {"hourly", "time", "precipitation", "temperature_2m", "wind_speed_10m"} :
                         f \notin data.hourly.has)
               => ErrorReply(502, "unexpected weather data format")
            /\ data.kind \in {"network_error", "bad_json", "null"}
               => ErrorReply(500, "internal error")
            /\ responses[1].status # 200 => DOMAIN responses[1].body \cap ResultFields = {}
            /\ responses[1].status = 200 =>
                   /\ data.kind = "json"
                   /\ {"hourly", "time", "precipitation", "temperature_2m", "wind_speed_10m"}
                          \subseteq data.hourly.has

\* C7 witness: the payload has every series but temperature_2m, and the answer is 502.
C7_Witness ==
    /\ Answered
    /\ Len(fetches) = 1
    /\ data.kind = "json"
    /\ "temperature_2m" \notin data.hourly.has
    /\ {"hourly", "time", "precipitation", "wind_speed_10m"} \subseteq data.hourly.has
    /\ responses[1].status = 502

\* C8 as stated: hoursNum is 12 when hours is absent or parses to no integer,
\* and otherwise the parsed integer h clamped to min(168, max(1, h)), h = 0
\* and negative h included.
C8_Original_HoursClamped ==
    (route = "/api/willitrain" /\ pc # "idle") =>
        LET h == IF query.hours.present THEN ParseInt(query.hours.v) ELSE NotANumber
        IN  parsed.hoursNum = IF h.kind = "NaN" THEN 12
                              ELSE IF Less(h, IntNumber(1)) THEN 1
                              ELSE IF Less(IntNumber(168), h) THEN 168
                              ELSE ToInt(h)

\* C9 as stated: whenever the payload passes the format check and a result is
\* computed, the window handed to the evaluators satisfies
\* 0 <= start < end <= length, no evaluator gets an empty series and
\* calculateRainProbability gets hours >= 1.
C9_Original_WindowNonEmpty ==
    (Answered /\ responses[1].status = 200) =>
        /\ 0 <= window.start
        /\ window.start < window.end
        /\ window.end <= Len(data.hourly.time)
        /\ evals[1].hours >= 1
        /\ evals[1].precipitation # <<>>
        /\ evals[2].temperatures # <<>>
        /\ evals[3].windSpeeds # <<>>

\* C10 as stated, on a non-empty series: in both modes the hours argument of
\* calculateRainProbability is the number of precipitation samples passed with
\* it, also when the forward window is cut by the end of the series.
C10_Original_HoursIsWindowLength ==
    (Answered /\ responses[1].status = 200 /\ Len(data.hourly.time) >= 1) =>
        /\ evals[1].hours = Len(evals[1].precipitation)
        /\ evals[1].hours = window.end - window.start

====
